---- MODULE Spec2Model ----
(***************************************************************************)
(* Session lifecycle and range-download pipeline of the Telegram export    *)
(* bot in src/main.py.                                                     *)
(*                                                                         *)
(* The dispatcher built in main() handles one update at a time, so every   *)
(* command handler runs to completion before the next update is taken.     *)
(* The download loop of handle_message is the one handler modelled in      *)
(* several steps, at two grains:                                           *)
(*   - download_media and progress_callback: one step per callback and one *)
(*     per item, the callbacks run one at a time while download_media is   *)
(*     awaited, and only download_media can raise (Spec, SpecJob,          *)
(*     SpecUsers);                                                         *)
(*   - create_task, progress_callback_enter/_sent and the ..._returns      *)
(*     steps: one step per await, every call of the bot able to raise, and *)
(*     the callbacks as tasks of their own, as asyncio.create_task makes   *)
(*     them (SpecTasks).                                                   *)
(*                                                                         *)
(* Calls that can fail take their outcome from a small set drawn with \E:  *)
(* connect and send_code_request (phone step), sign_in and the upsert of   *)
(* the session (OTP step), connect and is_user_authorized (restore),       *)
(* download_media, and in SpecTasks the bot's sends and delete_message.    *)
(* The replies of the session handlers and the store's delete are taken to *)
(* succeed.                                                                *)
(*                                                                         *)
(* Of the dict kept in USER_STATES during a login only the pending client  *)
(* is modelled; the phone number and the sent_code handle decide nothing   *)
(* but the platform's answer, which is drawn.                              *)
(***************************************************************************)
EXTENDS Integers, Sequences, FiniteSets, TLC

\* ---------------------------------------------------------------- bounds
MaxUser == 3          \* user IDs are 1..MaxUser
MaxMsgId == 3         \* message IDs of a chat are 1..MaxMsgId
MaxKeys == 2          \* authorization keys the platform issues in one run
MaxClients == 2       \* TelegramClient objects alive in one process
MaxCallbacks == 2     \* progress callbacks per downloaded item
MaxProgressMsgs == 2  \* progress messages the bot sends in one run

Users == 1..MaxUser
ADMINS == {1, 2}
Chats == {1, 2}
MsgIds == 1..MaxMsgId

\* Python None, for the values of PROGRESS_MESSAGES and a failed regex match
None == 0
NoMatch == -1

\* ------------------------------------------------------- data and helpers
Put(f, k, v) == [x \in (DOMAIN f) \cup {k} |-> IF x = k THEN v ELSE f[x]]
Del(f, k) == [x \in (DOMAIN f) \ {k} |-> f[x]]
Empty == [x \in {} |-> 0]

Orderings(S) ==
  {s \in [1..Cardinality(S) -> S] : \A i, j \in 1..Cardinality(S) : i # j => s[i] # s[j]}

RECURSIVE Count(_, _)
Count(seq, x) ==
  IF seq = <<>> THEN 0
  ELSE (IF Head(seq) = x THEN 1 ELSE 0) + Count(Tail(seq), x)

\* an outbound bot message: its kind and, for the notices of a job, the item
Msg(kind, item) == [kind |-> kind, item |-> item]

\* values of USER_STATES.get(user_id): None, "AWAITING_PHONE", or the dict
\* that holds the pending client
StateNone == [tag |-> "NONE", client |-> 0]
AwaitingPhone == [tag |-> "AWAITING_PHONE", client |-> 0]
AwaitingCode(c) == [tag |-> "AWAITING_CODE", client |-> c]

\* a TelegramClient object after connect(): the user whose login or record
\* it was built for, whether it is connected, and the authorization key of
\* its session (0: none)
NewClient(u, cred) == [owner |-> u, connected |-> TRUE, cred |-> cred]

\* client.session.save(): the empty string without a key, else the version
\* digit followed by the encoded key
session_save(client) == IF client.cred = 0 THEN <<>> ELSE <<1, client.cred>>

\* StringSession(string): decodes a saved string; an empty one has no key
StringSession(string) ==
  IF Len(string) = 2 /\ string[1] = 1 THEN string[2] ELSE 0

\* lines of a message text
PlainLine == [kind |-> "plain", chat |-> 0, id |-> 0]
LinkLine(c, i) == [kind |-> "link", chat |-> c, id |-> i]
FirstLinks == {LinkLine(1, i) : i \in {0, 1}}
SecondLinks == {LinkLine(c, MaxMsgId + 1) : c \in Chats}

\* a line that starts with the link prefix and does not match the pattern
BadLine == [kind |-> "bad", chat |-> 0, id |-> 0]

PlainText == <<PlainLine>>
Texts ==
  {PlainText}
    \cup {<<l>> : l \in {LinkLine(1, 1)}}
    \cup {<<l1, l2>> : l1 \in FirstLinks, l2 \in SecondLinks}
    \cup {<<LinkLine(1, 1), BadLine>>, <<BadLine, LinkLine(1, MaxMsgId + 1)>>}
    \cup {<<l, l, l>> : l \in {LinkLine(1, 1)}}

\* a text without link and a range request: what the session lifecycle
\* is driven with
SessionTexts == {PlainText, <<LinkLine(1, 1), LinkLine(1, MaxMsgId + 1)>>}

\* update.message.text.startswith("https://t.me/c/")
startswith_link(text) == text[1].kind # "plain"

parse_tg_link(link) ==
  IF link.kind = "link" THEN <<link.chat, link.id>> ELSE <<NoMatch, NoMatch>>

\* the loop over messages instead of reversed(messages)
not_reversed(seq) == seq

RECURSIVE reversed(_)
reversed(seq) ==
  IF seq = <<>> THEN <<>> ELSE Append(reversed(Tail(seq)), Head(seq))

\* the locals of the download loop: the requester, the client, the parsed
\* link fields, the enumerated list, the items still to visit, the items
\* whose download raised, the callbacks download_media made for the current
\* item, the message_id passed to delete_message, the items download_media
\* was called for, the bot calls that raised, the id that the first
\* progress message of this job gets, and the callback tasks of earlier
\* jobs of this chat that were alive when the loop began
NoJob == [user |-> 0, client |-> 0, chat_id |-> 0, start_id |-> 0,
          end_id |-> 0, messages |-> <<>>, todo |-> <<>>, failed |-> {},
          cb |-> 0, message_id |-> 0, attempted |-> <<>>, raised |-> {},
          first |-> 0, stale |-> 0]

\* the callback tasks of one chat that did not end yet: created by
\* asyncio.create_task and not started, or awaiting send_message
NoTasks == [created |-> 0, sending |-> 0]

\* ------------------------------------------------------------------ state
VARIABLES
  sessions,           \* the persisted collection: user_id -> session string
  USER_STATES,        \* login state per user
  ACTIVE_CLIENTS,     \* user_id -> index of the registered client
  PROGRESS_MESSAGES,  \* chat_id -> None or the progress message id
  clients,            \* the client objects of this process that connected
  nextKey,            \* platform: next authorization key to issue
  chat,               \* platform: message IDs that carry media, per chat
  progress,           \* platform: progress messages sent and not deleted
  nextMsgId,          \* platform: id of the next progress message
  pc,                 \* "boot" | "idle" | "job" (download_media awaited) |
                      \* "delete" | "saved" | "document" | "failed" (that
                      \* call of the bot awaited)
  job,                \* locals of the running download loop
  update,             \* the update being handled, how it ended, and for
                      \* restore_sessions the documents it scanned
  replies,            \* outbound messages sent while handling it
  lastLogin,          \* key saved by the user's last login, 0 after logout
  tasks               \* event loop: the progress_callback tasks, per chat_id

vars == <<sessions, USER_STATES, ACTIVE_CLIENTS, PROGRESS_MESSAGES, clients,
          nextKey, chat, progress, nextMsgId, pc, job, update, replies,
          lastLogin, tasks>>

platform == <<chat, progress, nextMsgId>>

Upd(h, u, o) == [handler |-> h, user |-> u, outcome |-> o, scan |-> <<>>]

Init ==
  /\ sessions = Empty
  /\ USER_STATES = [u \in Users |-> StateNone]
  /\ ACTIVE_CLIENTS = Empty
  /\ PROGRESS_MESSAGES = Empty
  /\ clients = <<>>
  /\ nextKey = 1
  /\ chat = [c \in Chats |-> {}]
  /\ progress = {}
  /\ nextMsgId = 1
  /\ pc = "boot"
  /\ job = NoJob
  /\ update = Upd("main", 0, "boot")
  /\ replies = <<>>
  /\ lastLogin = [u \in Users |-> 0]
  /\ tasks = [u \in Users |-> NoTasks]

\* --------------------------------------------------------------- commands
start(u) ==
  /\ pc = "idle"
  /\ replies' = IF u \notin ADMINS THEN <<>> ELSE <<Msg("welcome", 0)>>
  /\ update' = Upd("start", u, IF u \in ADMINS THEN "ok" ELSE "ignored")
  /\ job' = NoJob
  /\ UNCHANGED <<sessions, USER_STATES, ACTIVE_CLIENTS, PROGRESS_MESSAGES,
                 clients, nextKey, platform, pc, lastLogin, tasks>>

login(u) ==
  /\ pc = "idle"
  /\ USER_STATES' = IF u \notin ADMINS THEN USER_STATES
                    ELSE [USER_STATES EXCEPT ![u] = AwaitingPhone]
  /\ replies' = IF u \notin ADMINS THEN <<>> ELSE <<Msg("ask_phone", 0)>>
  /\ update' = Upd("login", u, IF u \in ADMINS THEN "ok" ELSE "ignored")
  /\ job' = NoJob
  /\ UNCHANGED <<sessions, ACTIVE_CLIENTS, PROGRESS_MESSAGES, clients,
                 nextKey, platform, pc, lastLogin, tasks>>

\* logout with the membership test dropped: del raises KeyError for a user
\* without a registered client, before the store is touched or a reply sent
logout_unguarded(u, ac, cl, ss) ==
  IF u \in DOMAIN ac
  THEN [ac |-> Del(ac, u), cl |-> [cl EXCEPT ![ac[u]].connected = FALSE],
        ss |-> Del(ss, u), replies |-> <<Msg("terminated", 0)>>]
  ELSE [ac |-> ac, cl |-> cl, ss |-> ss, replies |-> <<>>]

\* logout that deletes every record of the store, not the caller's
logout_everyone(u, ac, cl, ss) ==
  [ac |-> IF u \in DOMAIN ac THEN Del(ac, u) ELSE ac,
   cl |-> IF u \in DOMAIN ac THEN [cl EXCEPT ![ac[u]].connected = FALSE] ELSE cl,
   ss |-> Empty,
   replies |-> <<Msg("terminated", 0)>>]

\* what logout does to the client table, the clients and the store
logout_result(u, ac, cl, ss) ==
  [ac |-> IF u \in DOMAIN ac THEN Del(ac, u) ELSE ac,
   cl |-> IF u \in DOMAIN ac THEN [cl EXCEPT ![ac[u]].connected = FALSE] ELSE cl,
   ss |-> Del(ss, u),
   replies |-> <<Msg("terminated", 0)>>]

logout(u) ==
  /\ pc = "idle"
  /\ update' = Upd("logout", u,
                   IF u \in DOMAIN ACTIVE_CLIENTS \/ u \in DOMAIN sessions
                   THEN "revoked" ELSE "no_session")
  /\ LET r == logout_result(u, ACTIVE_CLIENTS, clients, sessions)
     IN /\ ACTIVE_CLIENTS' = r.ac
        /\ clients' = r.cl
        /\ sessions' = r.ss
        /\ replies' = r.replies
  /\ lastLogin' = [lastLogin EXCEPT ![u] = 0]
  /\ job' = NoJob
  /\ UNCHANGED <<USER_STATES, PROGRESS_MESSAGES, nextKey, platform, pc, tasks>>

\* ------------------------------------------------- handle_message: login
PhoneOutcomes == {"ok", "connect_error", "code_request_error"}

\* state AWAITING_PHONE: connect a new client and request the code; an
\* exception of either call leaves the handler before USER_STATES is set
phone_result(u, outcome, us, cl) ==
  IF outcome = "ok"
  THEN [us |-> [us EXCEPT ![u] = AwaitingCode(Len(cl) + 1)],
        cl |-> Append(cl, NewClient(u, StringSession(<<>>))),
        replies |-> <<Msg("ask_otp", 0)>>]
  ELSE IF outcome = "code_request_error"
  THEN [us |-> us, cl |-> Append(cl, NewClient(u, StringSession(<<>>))),
        replies |-> <<>>]
  ELSE [us |-> us, cl |-> cl, replies |-> <<>>]

OtpOutcomes == {"ok", "sign_in_error", "store_error"}

\* the OTP step with the client registered before the session is written
otp_registers_first(u, outcome, us, ac, cl, ss, key) ==
  LET c == us[u].client
      signed == [cl EXCEPT ![c].cred = key]
  IN  IF outcome = "ok"
      THEN [us |-> [us EXCEPT ![u] = StateNone], ac |-> Put(ac, u, c),
            cl |-> signed, ss |-> Put(ss, u, session_save(signed[c])),
            key |-> key + 1, replies |-> <<Msg("login_ok", 0)>>]
      ELSE IF outcome = "store_error"
      THEN [us |-> us, ac |-> Put(ac, u, c), cl |-> signed, ss |-> ss,
            key |-> key + 1, replies |-> <<Msg("error", 0)>>]
      ELSE [us |-> us, ac |-> ac, cl |-> cl, ss |-> ss, key |-> key,
            replies |-> <<Msg("error", 0)>>]

\* the OTP step without the upsert of the session string
otp_without_upsert(u, outcome, us, ac, cl, ss, key) ==
  LET c == us[u].client
      signed == [cl EXCEPT ![c].cred = key]
  IN  IF outcome = "ok"
      THEN [us |-> [us EXCEPT ![u] = StateNone], ac |-> Put(ac, u, c),
            cl |-> signed, ss |-> ss,
            key |-> key + 1, replies |-> <<Msg("login_ok", 0)>>]
      ELSE IF outcome = "store_error"
      THEN [us |-> us, ac |-> ac, cl |-> signed, ss |-> ss,
            key |-> key + 1, replies |-> <<Msg("error", 0)>>]
      ELSE [us |-> us, ac |-> ac, cl |-> cl, ss |-> ss, key |-> key,
            replies |-> <<Msg("error", 0)>>]

\* state AWAITING_CODE: sign in, save the session string, register the
\* client, clear the state; any exception is reported to the user
otp_result(u, outcome, us, ac, cl, ss, key) ==
  LET c == us[u].client
      signed == [cl EXCEPT ![c].cred = key]
  IN  IF outcome = "ok"
      THEN [us |-> [us EXCEPT ![u] = StateNone],
            ac |-> Put(ac, u, c),
            cl |-> signed,
            ss |-> Put(ss, u, session_save(signed[c])),
            key |-> key + 1,
            replies |-> <<Msg("login_ok", 0)>>]
      ELSE IF outcome = "store_error"
      THEN [us |-> us, ac |-> ac, cl |-> signed, ss |-> ss, key |-> key + 1,
            replies |-> <<Msg("error", 0)>>]
      ELSE [us |-> us, ac |-> ac, cl |-> cl, ss |-> ss, key |-> key,
            replies |-> <<Msg("error", 0)>>]

HandlePhone(u) ==
  \E outcome \in PhoneOutcomes :
    LET r == phone_result(u, outcome, USER_STATES, clients)
    IN /\ USER_STATES' = r.us
       /\ clients' = r.cl
       /\ replies' = r.replies
       /\ update' = Upd("phone", u, outcome)
       /\ job' = NoJob
       /\ UNCHANGED <<sessions, ACTIVE_CLIENTS, PROGRESS_MESSAGES, nextKey,
                      platform, pc, lastLogin, tasks>>

HandleCode(u) ==
  \E outcome \in OtpOutcomes :
    LET r == otp_result(u, outcome, USER_STATES, ACTIVE_CLIENTS, clients,
                        sessions, nextKey)
    IN /\ USER_STATES' = r.us
       /\ ACTIVE_CLIENTS' = r.ac
       /\ clients' = r.cl
       /\ sessions' = r.ss
       /\ nextKey' = r.key
       /\ replies' = r.replies
       /\ update' = Upd("otp", u, outcome)
       /\ lastLogin' = IF outcome = "ok" THEN [lastLogin EXCEPT ![u] = nextKey]
                       ELSE lastLogin
       /\ job' = NoJob
       /\ UNCHANGED <<PROGRESS_MESSAGES, platform, pc, tasks>>

\* ---------------------------------------------- handle_message: downloads
\* client.iter_messages(chat_id, min_id, max_id): the messages between the
\* two IDs, in the order the platform yields them; msg.media filters them
iter_messages(c, min_id, max_id) ==
  Orderings({m \in chat[c] : min_id < m /\ m < max_id})

Reply(u, kind, outcome) ==
  /\ replies' = <<Msg(kind, 0)>>
  /\ update' = Upd("message", u, outcome)
  /\ job' = NoJob
  /\ UNCHANGED <<sessions, USER_STATES, ACTIVE_CLIENTS, PROGRESS_MESSAGES,
                 clients, nextKey, platform, pc, lastLogin, tasks>>

\* the handler ends without a reply: no branch matched, or an exception
\* left it
Ignore(u, outcome) ==
  /\ replies' = <<>>
  /\ update' = Upd("message", u, outcome)
  /\ job' = NoJob
  /\ UNCHANGED <<sessions, USER_STATES, ACTIVE_CLIENTS, PROGRESS_MESSAGES,
                 clients, nextKey, platform, pc, lastLogin, tasks>>

\* ACTIVE_CLIENTS.get(user_id) read through one client shared by all users
get_any_client(u, ac) ==
  IF DOMAIN ac = {} THEN None ELSE ac[CHOOSE v \in DOMAIN ac : TRUE]

\* ACTIVE_CLIENTS.get(user_id)
get_client(u, ac) == IF u \in DOMAIN ac THEN ac[u] ELSE None

\* The link branch.  A line that does not match the pattern parses to
\* (None, None); the handler does not test for it, and iter_messages, given
\* None for the chat or for an ID bound, raises before it yields anything.
HandleLinks(u, text) ==
  IF Len(text) # 2
  THEN Reply(u, "need_two_links", "bad_request")
  ELSE LET first == parse_tg_link(text[1])
           second == parse_tg_link(text[2])
           client == get_client(u, ACTIVE_CLIENTS)
       IN IF client = None
          THEN Reply(u, "not_logged_in", "not_logged_in")
          ELSE IF first[1] = NoMatch \/ second[2] = NoMatch
          THEN Ignore(u, "enumeration_error")
          ELSE \E messages \in iter_messages(first[1], first[2], second[2]) :
                 /\ job' = [NoJob EXCEPT !.user = u, !.client = client,
                                         !.chat_id = first[1],
                                         !.start_id = first[2],
                                         !.end_id = second[2],
                                         !.messages = messages,
                                         !.todo = reversed(messages),
                                         !.first = nextMsgId,
                                         !.stale = tasks[u].created
                                                     + tasks[u].sending]
                 /\ pc' = IF messages = <<>> THEN "idle" ELSE "job"
                 /\ PROGRESS_MESSAGES' =
                      IF messages = <<>> THEN PROGRESS_MESSAGES
                      ELSE Put(PROGRESS_MESSAGES, u, None)
                 /\ replies' = <<>>
                 /\ update' = Upd("message", u, "job")
                 /\ UNCHANGED <<sessions, USER_STATES, ACTIVE_CLIENTS, clients,
                                nextKey, platform, lastLogin, tasks>>

handle_message(u, text) ==
  /\ pc = "idle"
  /\ USER_STATES[u].tag = "AWAITING_PHONE" => Len(clients) < MaxClients
  /\ USER_STATES[u].tag = "AWAITING_CODE" => nextKey <= MaxKeys
  /\ IF u \notin ADMINS THEN Ignore(u, "ignored")
     ELSE IF USER_STATES[u].tag = "AWAITING_PHONE" THEN HandlePhone(u)
     ELSE IF USER_STATES[u].tag = "AWAITING_CODE" THEN HandleCode(u)
     ELSE IF startswith_link(text) THEN HandleLinks(u, text)
     ELSE Ignore(u, "no_branch")

\* the progress callback of the item being downloaded
progress_callback ==
  /\ pc = "job"
  /\ job.cb < MaxCallbacks
  /\ LET chat_id == job.user
     IN IF chat_id \in DOMAIN PROGRESS_MESSAGES /\ PROGRESS_MESSAGES[chat_id] # None
        THEN UNCHANGED <<PROGRESS_MESSAGES, progress, nextMsgId>>
        ELSE /\ nextMsgId <= MaxProgressMsgs
             /\ PROGRESS_MESSAGES' = Put(PROGRESS_MESSAGES, chat_id, nextMsgId)
             /\ progress' = progress \cup {nextMsgId}
             /\ nextMsgId' = nextMsgId + 1
  /\ job' = [job EXCEPT !.cb = @ + 1]
  /\ UNCHANGED <<sessions, USER_STATES, ACTIVE_CLIENTS, clients, nextKey, chat,
                 pc, update, replies, lastLogin, tasks>>

\* the notices of one item: saved + document, or the failure notice
item_notices(ok, item) ==
  IF ok THEN <<Msg("saved", item), Msg("document", item)>>
  ELSE <<Msg("failed", item)>>

\* a loop that the first failed item leaves
remaining_until_failure(ok, todo) == IF ok THEN Tail(todo) ELSE <<>>

\* the items the loop still visits after the current one
remaining(ok, todo) == Tail(todo)

\* download_media returns or raises; the rest of the loop body runs and the
\* loop moves to the next item
download_media(ok) ==
  /\ pc = "job"
  /\ LET u == job.user
         item == Head(job.todo)
         rest == remaining(ok, job.todo)
         handle == IF u \in DOMAIN PROGRESS_MESSAGES THEN PROGRESS_MESSAGES[u]
                   ELSE None
         dismissed == ok /\ handle # None
         pm == IF dismissed THEN Del(PROGRESS_MESSAGES, u) ELSE PROGRESS_MESSAGES
     IN /\ replies' = replies \o item_notices(ok, item)
        /\ progress' = IF dismissed THEN progress \ {handle} ELSE progress
        /\ job' = [job EXCEPT !.todo = rest, !.cb = 0,
                              !.attempted = Append(@, item),
                              !.failed = IF ok THEN @ ELSE @ \cup {item}]
        /\ PROGRESS_MESSAGES' = IF rest = <<>> THEN pm ELSE Put(pm, u, None)
        /\ pc' = IF rest = <<>> THEN "idle" ELSE "job"
  /\ UNCHANGED <<sessions, USER_STATES, ACTIVE_CLIENTS, clients, nextKey, chat,
                 nextMsgId, update, lastLogin, tasks>>

\* ------------------------------------- the download loop, await by await
\* The same loop with every await a step of its own, the bot calls able to
\* raise, and the callbacks as the tasks that the lambda passed to
\* download_media creates: a task runs whenever the event loop is free, up
\* to its next await, whether or not the download that created it is over.

\* the session lifecycle's part of the state
tables == <<sessions, USER_STATES, ACTIVE_CLIENTS, clients, nextKey, lastLogin>>

\* PROGRESS_MESSAGES.get(chat_id)
get_progress(pm, chat_id) == IF chat_id \in DOMAIN pm THEN pm[chat_id] ELSE None

\* download_media calls the lambda, which creates a task for the callback
create_task ==
  /\ pc = "job"
  /\ job.cb < MaxCallbacks
  /\ tasks[job.user].created + tasks[job.user].sending < MaxCallbacks
  /\ tasks' = [tasks EXCEPT ![job.user].created = @ + 1]
  /\ job' = [job EXCEPT !.cb = @ + 1]
  /\ UNCHANGED <<tables, PROGRESS_MESSAGES, platform, pc, update, replies>>

\* a created task runs to its await: with a handle it edits that message
\* and ends, whatever the edit does; without one it calls send_message
progress_callback_enter(chat_id) ==
  /\ pc # "boot"
  /\ tasks[chat_id].created > 0
  /\ tasks' = IF get_progress(PROGRESS_MESSAGES, chat_id) # None
              THEN [tasks EXCEPT ![chat_id].created = @ - 1]
              ELSE [tasks EXCEPT ![chat_id] =
                      [created |-> @.created - 1, sending |-> @.sending + 1]]
  /\ UNCHANGED <<tables, PROGRESS_MESSAGES, platform, pc, job, update, replies>>

\* send_message returns and the task stores the id of the new message, or
\* send_message raises and the task ends with it
progress_callback_sent(chat_id, ok) ==
  /\ pc # "boot"
  /\ tasks[chat_id].sending > 0
  /\ ok => nextMsgId <= MaxProgressMsgs
  /\ tasks' = [tasks EXCEPT ![chat_id].sending = @ - 1]
  /\ IF ok
     THEN /\ PROGRESS_MESSAGES' = Put(PROGRESS_MESSAGES, chat_id, nextMsgId)
          /\ progress' = progress \cup {nextMsgId}
          /\ nextMsgId' = nextMsgId + 1
     ELSE UNCHANGED <<PROGRESS_MESSAGES, progress, nextMsgId>>
  /\ UNCHANGED <<tables, chat, pc, job, update, replies>>

\* download_media returns or raises
download_returns(ok) ==
  /\ pc = "job"
  /\ LET handle == get_progress(PROGRESS_MESSAGES, job.user)
     IN /\ job' = [job EXCEPT !.attempted = Append(@, Head(job.todo)),
                              !.failed = IF ok THEN @ ELSE @ \cup {Head(job.todo)},
                              !.message_id = IF ok THEN handle ELSE @]
        /\ pc' = IF ~ok THEN "failed" ELSE IF handle # None THEN "delete" ELSE "saved"
  /\ UNCHANGED <<tables, PROGRESS_MESSAGES, platform, update, replies, tasks>>

\* the loop goes on with the next item, or ends
next_item(pm) ==
  LET rest == remaining(TRUE, job.todo)
  IN /\ job' = [job EXCEPT !.todo = rest, !.cb = 0]
     /\ PROGRESS_MESSAGES' = IF rest = <<>> THEN pm ELSE Put(pm, job.user, None)
     /\ pc' = IF rest = <<>> THEN "idle" ELSE "job"

\* an exception inside the try: the except clause sends the failure notice
raise_in_try(call) ==
  /\ job' = [job EXCEPT !.raised = @ \cup {call}]
  /\ pc' = "failed"

\* delete_message returns, and the handle is deleted from the table; or raises
delete_message_returns(ok) ==
  /\ pc = "delete"
  /\ IF ok
     THEN /\ progress' = progress \ {job.message_id}
          /\ PROGRESS_MESSAGES' = Del(PROGRESS_MESSAGES, job.user)
          /\ pc' = "saved"
          /\ UNCHANGED job
     ELSE /\ raise_in_try("delete_message")
          /\ UNCHANGED <<PROGRESS_MESSAGES, progress>>
  /\ UNCHANGED <<tables, chat, nextMsgId, update, replies, tasks>>

\* the reply "Saved" returns or raises
reply_saved_returns(ok) ==
  /\ pc = "saved"
  /\ IF ok
     THEN /\ replies' = Append(replies, Msg("saved", Head(job.todo)))
          /\ pc' = "document"
          /\ UNCHANGED job
     ELSE /\ raise_in_try("reply_text")
          /\ UNCHANGED replies
  /\ UNCHANGED <<tables, PROGRESS_MESSAGES, platform, update, tasks>>

\* send_document returns or raises
send_document_returns(ok) ==
  /\ pc = "document"
  /\ IF ok
     THEN /\ replies' = Append(replies, Msg("document", Head(job.todo)))
          /\ next_item(PROGRESS_MESSAGES)
     ELSE /\ raise_in_try("send_document")
          /\ UNCHANGED <<PROGRESS_MESSAGES, replies>>
  /\ UNCHANGED <<tables, platform, update, tasks>>

\* the reply of the except clause returns, or raises and leaves the handler
reply_failed_returns(ok) ==
  /\ pc = "failed"
  /\ IF ok
     THEN /\ replies' = Append(replies, Msg("failed", Head(job.todo)))
          /\ next_item(PROGRESS_MESSAGES)
     ELSE /\ job' = [job EXCEPT !.raised = @ \cup {"failure_notice"}]
          /\ pc' = "idle"
          /\ UNCHANGED <<PROGRESS_MESSAGES, replies>>
  /\ UNCHANGED <<tables, platform, update, tasks>>

\* ------------------------------------------------------ startup and exit
RestoreOutcomes == {"authorized", "unauthorized", "error"}

\* a scan without the try/except: the first exception ends it
RECURSIVE restore_scan_unguarded(_, _, _)
restore_scan_unguarded(scan, ac, cl) ==
  IF scan = <<>> THEN [ac |-> ac, cl |-> cl]
  ELSE LET doc == Head(scan)
           client == NewClient(doc.user, StringSession(doc.session))
       IN IF doc.outcome = "error"
          THEN [ac |-> ac, cl |-> cl]
          ELSE IF doc.outcome = "unauthorized"
          THEN restore_scan_unguarded(Tail(scan), ac, Append(cl, client))
          ELSE restore_scan_unguarded(Tail(scan), Put(ac, doc.user, Len(cl) + 1),
                                      Append(cl, client))

\* the loop of restore_sessions over the scanned documents
RECURSIVE restore_scan(_, _, _)
restore_scan(scan, ac, cl) ==
  IF scan = <<>> THEN [ac |-> ac, cl |-> cl]
  ELSE LET doc == Head(scan)
           client == NewClient(doc.user, StringSession(doc.session))
       IN IF doc.outcome = "error"
          THEN restore_scan(Tail(scan), ac, cl)
          ELSE IF doc.outcome = "unauthorized"
          THEN restore_scan(Tail(scan), ac, Append(cl, client))
          ELSE restore_scan(Tail(scan), Put(ac, doc.user, Len(cl) + 1),
                            Append(cl, client))

restore_sessions ==
  /\ pc = "boot"
  /\ \E order \in Orderings(DOMAIN sessions) :
       \E out \in [DOMAIN sessions -> RestoreOutcomes] :
         LET scan == [i \in 1..Len(order) |->
                        [user |-> order[i], session |-> sessions[order[i]],
                         outcome |-> out[order[i]]]]
             r == restore_scan(scan, ACTIVE_CLIENTS, clients)
         IN /\ ACTIVE_CLIENTS' = r.ac
            /\ clients' = r.cl
            /\ update' = [Upd("restore", 0, "ok") EXCEPT !.scan =
                             [i \in 1..Len(scan) |->
                                [user |-> scan[i].user, outcome |-> scan[i].outcome]]]
  /\ pc' = "idle"
  /\ UNCHANGED <<sessions, USER_STATES, PROGRESS_MESSAGES, nextKey, platform,
                 job, replies, lastLogin, tasks>>

\* the process exits and main() runs again: the in-memory tables are lost
restart ==
  /\ pc # "boot"
  /\ USER_STATES' = [u \in Users |-> StateNone]
  /\ ACTIVE_CLIENTS' = Empty
  /\ PROGRESS_MESSAGES' = Empty
  /\ clients' = <<>>
  /\ pc' = "boot"
  /\ job' = NoJob
  /\ update' = Upd("main", 0, "boot")
  /\ replies' = <<>>
  /\ tasks' = [u \in Users |-> NoTasks]
  /\ UNCHANGED <<sessions, nextKey, platform, lastLogin>>

\* The session lifecycle: a fresh deployment whose chats hold no media, so
\* that every accepted range request finds an empty list and its loop has no
\* iteration.
Next ==
  \/ restore_sessions
  \/ \E u \in Users : start(u)
  \/ \E u \in Users : login(u)
  \/ \E u \in Users : logout(u)
  \/ \E u \in Users, text \in SessionTexts : handle_message(u, text)
  \/ restart

Spec == Init /\ [][Next]_vars

\* The download loop: a process whose store holds the session of user 1,
\* right after restore_sessions registered it; chat 1 holds any set of media
\* messages.
InitJob ==
  /\ sessions = Put(Empty, 1, session_save(NewClient(1, 1)))
  /\ USER_STATES = [u \in Users |-> StateNone]
  /\ ACTIVE_CLIENTS = Put(Empty, 1, 1)
  /\ PROGRESS_MESSAGES = Empty
  /\ clients = <<NewClient(1, 1)>>
  /\ nextKey = 2
  /\ \E media \in SUBSET MsgIds : chat = [c \in Chats |-> IF c = 1 THEN media ELSE {}]
  /\ progress = {}
  /\ nextMsgId = 1
  /\ pc = "idle"
  /\ job = NoJob
  /\ update = [Upd("restore", 0, "ok") EXCEPT !.scan =
                 <<[user |-> 1, outcome |-> "authorized"]>>]
  /\ replies = <<>>
  /\ lastLogin = [u \in Users |-> IF u = 1 THEN 1 ELSE 0]
  /\ tasks = [u \in Users |-> NoTasks]

NextJob ==
  \/ \E u \in ADMINS, text \in Texts : handle_message(u, text)
  \/ progress_callback
  \/ \E ok \in BOOLEAN : download_media(ok)

SpecJob == InitJob /\ [][NextJob]_vars

\* The download loop await by await: the same process, with media in the
\* messages 1 and 2 of chat 1, and range requests only.
RangeTexts == {<<l1, l2>> : l1 \in FirstLinks, l2 \in SecondLinks}

InitTasks ==
  /\ sessions = Put(Empty, 1, session_save(NewClient(1, 1)))
  /\ USER_STATES = [u \in Users |-> StateNone]
  /\ ACTIVE_CLIENTS = Put(Empty, 1, 1)
  /\ PROGRESS_MESSAGES = Empty
  /\ clients = <<NewClient(1, 1)>>
  /\ nextKey = 2
  /\ chat = [c \in Chats |-> IF c = 1 THEN {1, 2} ELSE {}]
  /\ progress = {}
  /\ nextMsgId = 1
  /\ pc = "idle"
  /\ job = NoJob
  /\ update = [Upd("restore", 0, "ok") EXCEPT !.scan =
                 <<[user |-> 1, outcome |-> "authorized"]>>]
  /\ replies = <<>>
  /\ lastLogin = [u \in Users |-> IF u = 1 THEN 1 ELSE 0]
  /\ tasks = [u \in Users |-> NoTasks]

NextTasks ==
  \/ \E u \in ADMINS, text \in RangeTexts : handle_message(u, text)
  \/ create_task
  \/ \E chat_id \in Users : progress_callback_enter(chat_id)
  \/ \E chat_id \in Users, ok \in BOOLEAN : progress_callback_sent(chat_id, ok)
  \/ \E ok \in BOOLEAN : download_returns(ok)
  \/ \E ok \in BOOLEAN : delete_message_returns(ok)
  \/ \E ok \in BOOLEAN : reply_saved_returns(ok)
  \/ \E ok \in BOOLEAN : send_document_returns(ok)
  \/ \E ok \in BOOLEAN : reply_failed_returns(ok)

SpecTasks == InitTasks /\ [][NextTasks]_vars

\* Two administrators: user 1 registered as above, user 2 not logged in;
\* message 2 of chat 1 holds media.  The callbacks run as download_media
\* awaits them, one at a time.
InitUsers ==
  /\ sessions = Put(Empty, 1, session_save(NewClient(1, 1)))
  /\ USER_STATES = [u \in Users |-> StateNone]
  /\ ACTIVE_CLIENTS = Put(Empty, 1, 1)
  /\ PROGRESS_MESSAGES = Empty
  /\ clients = <<NewClient(1, 1)>>
  /\ nextKey = 2
  /\ chat = [c \in Chats |-> IF c = 1 THEN {2} ELSE {}]
  /\ progress = {}
  /\ nextMsgId = 1
  /\ pc = "idle"
  /\ job = NoJob
  /\ update = [Upd("restore", 0, "ok") EXCEPT !.scan =
                 <<[user |-> 1, outcome |-> "authorized"]>>]
  /\ replies = <<>>
  /\ lastLogin = [u \in Users |-> IF u = 1 THEN 1 ELSE 0]
  /\ tasks = [u \in Users |-> NoTasks]

NextUsers ==
  \/ \E u \in ADMINS : login(u)
  \/ \E u \in ADMINS : logout(u)
  \/ \E u \in ADMINS, text \in SessionTexts : handle_message(u, text)
  \/ progress_callback
  \/ \E ok \in BOOLEAN : download_media(ok)

SpecUsers == InitUsers /\ [][NextUsers]_vars

\* ================================================================ claims
Handled(h, u, o) == update.handler = h /\ update.user = u /\ update.outcome = o

\* C1: a handler run for a user outside ADMINS changes none of USER_STATES,
\* ACTIVE_CLIENTS, PROGRESS_MESSAGES and the store, disconnects no client
\* and sends no message.
NonAdminNoOp ==
  [][\A u \in Users \ ADMINS :
       (start(u) \/ login(u) \/ logout(u)
          \/ \E text \in Texts : handle_message(u, text))
         => /\ UNCHANGED <<USER_STATES, ACTIVE_CLIENTS, PROGRESS_MESSAGES,
                           sessions, clients>>
            /\ replies' = <<>>]_vars

\* C2: every user with a registered client has a persisted session record.
LivePersisted == \A u \in DOMAIN ACTIVE_CLIENTS : u \in DOMAIN sessions

LivePersistedWitness ==
  \E u \in Users : Handled("otp", u, "ok") /\ u \in DOMAIN ACTIVE_CLIENTS
                    /\ u \in DOMAIN sessions

\* the accepted range request whose loop has ended
JobFinished == pc = "idle" /\ update.handler = "message" /\ update.outcome = "job"

Items == {job.messages[i] : i \in 1..Len(job.messages)}

IsDocument(m) == m.kind = "document"

\* the items forwarded to the requester, in the order of sending
Forwarded ==
  LET docs == SelectSeq(replies, IsDocument)
  IN [i \in 1..Len(docs) |-> docs[i].item]

Increasing(seq) == \A i, j \in 1..Len(seq) : i < j => seq[i] < seq[j]
Decreasing(seq) == \A i, j \in 1..Len(seq) : i < j => seq[i] > seq[j]

NotFailed(i) == i \notin job.failed

Scanned == {update.scan[i].user : i \in DOMAIN update.scan}
ScannedAs(o) == {update.scan[i].user : i \in {k \in DOMAIN update.scan : update.scan[k].outcome = o}}

\* C5: restore_sessions ends without raising, having scanned every persisted
\* record, and registers exactly the users whose record the platform still
\* authorizes, wherever the broken records are in the scan.
RestoreIndependent ==
  update.handler = "restore" =>
    /\ pc = "idle"
    /\ Scanned = DOMAIN sessions
    /\ DOMAIN ACTIVE_CLIENTS = ScannedAs("authorized")

RestoreWitness ==
  /\ update.handler = "restore"
  /\ Len(update.scan) = 2
  /\ update.scan[1].outcome # "authorized"
  /\ update.scan[2].outcome = "authorized"
  /\ DOMAIN ACTIVE_CLIENTS = {update.scan[2].user}

\* C6: after restore_sessions, a user whose last login completed and was not
\* followed by a logout has a scanned record, and if the platform authorizes
\* it the user has a registered, connected client holding the key saved at
\* that login.
LoginRestoreRoundTrip ==
  update.handler = "restore" =>
    \A u \in Users :
      lastLogin[u] # 0 =>
        /\ u \in Scanned
        /\ u \in ScannedAs("authorized") =>
             /\ u \in DOMAIN ACTIVE_CLIENTS
             /\ clients[ACTIVE_CLIENTS[u]].connected
             /\ clients[ACTIVE_CLIENTS[u]].cred = lastLogin[u]

RoundTripWitness ==
  /\ update.handler = "restore"
  /\ \E u \in Users :
       /\ lastLogin[u] = 2
       /\ u \in ScannedAs("authorized")
       /\ clients[ACTIVE_CLIENTS[u]].cred = 2

\* C7: after /logout the user has no registered client, no persisted record
\* and login state NONE.
LogoutClearsLoginState ==
  \A u \in Users :
    update.handler = "logout" /\ update.user = u =>
      /\ u \notin DOMAIN ACTIVE_CLIENTS
      /\ u \notin DOMAIN sessions
      /\ USER_STATES[u].tag = "NONE"

\* C8: /logout for a user without client and record leaves the store, the
\* client table and the clients as they were and sends the confirmation;
\* a second /logout right after any /logout changes nothing and sends the
\* same confirmation.
LogoutIdempotent ==
  [][\A u \in Users :
       logout(u) =>
         /\ (u \notin DOMAIN ACTIVE_CLIENTS /\ u \notin DOMAIN sessions)
              => /\ UNCHANGED <<sessions, ACTIVE_CLIENTS, clients>>
                 /\ replies' = <<Msg("terminated", 0)>>
         /\ LET again == logout_result(u, ACTIVE_CLIENTS', clients', sessions')
            IN /\ again.ac = ACTIVE_CLIENTS'
               /\ again.cl = clients'
               /\ again.ss = sessions'
               /\ again.replies = replies']_vars

LogoutIdempotentWitness ==
  \E u \in ADMINS :
    /\ Handled("logout", u, "no_session")
    /\ replies = <<Msg("terminated", 0)>>
    /\ u \notin DOMAIN sessions
    /\ u \notin DOMAIN ACTIVE_CLIENTS

\* C9: after a failed sign-in the error was sent to the user and the login
\* state is NONE.
SignInFailureResets ==
  \A u \in Users :
    Handled("otp", u, "sign_in_error") =>
      /\ replies = <<Msg("error", 0)>>
      /\ USER_STATES[u].tag = "NONE"

\* C10: after a failed connect or code request in state AWAITING_PHONE the
\* login state is NONE and the user was notified.
PhoneFailureResets ==
  \A u \in Users :
    (Handled("phone", u, "connect_error") \/ Handled("phone", u, "code_request_error")) =>
      /\ USER_STATES[u].tag = "NONE"
      /\ replies # <<>>

\* the progress messages sent since the running job began and not deleted
JobProgress == {m \in progress : m >= job.first}

\* C11: while a job runs that began with no callback task of an earlier job
\* alive, at most one progress message sent since it began is not deleted.
OneProgressMessagePerJob ==
  (pc \notin {"boot", "idle"} /\ job.stale = 0) => Cardinality(JobProgress) <= 1

Attempted == {job.attempted[k] : k \in DOMAIN job.attempted}

\* C12: when the loop has ended and no bot call but the deletion of a
\* progress message raised, every item whose download succeeded was
\* forwarded and got no failure notice.
ProgressFailuresSwallowed ==
  (JobFinished /\ job.raised \subseteq {"delete_message"}) =>
    \A i \in Attempted \ job.failed :
      /\ Count(replies, Msg("document", i)) = 1
      /\ Count(replies, Msg("failed", i)) = 0

\* two lines that both match the pattern and name the same chat
WellFormedRange(text) ==
  /\ Len(text) = 2
  /\ text[1].kind = "link"
  /\ text[2].kind = "link"
  /\ text[1].chat = text[2].chat

\* C13: a text that starts with the link prefix and is not two links of one
\* chat is answered with the 'exactly 2 links' message, and no enumeration
\* or download begins.
OnlyWellFormedRangesAccepted ==
  [][\A u \in ADMINS : \A text \in Texts :
       (/\ USER_STATES[u].tag = "NONE"
        /\ startswith_link(text)
        /\ ~WellFormedRange(text)
        /\ handle_message(u, text))
         => /\ replies' = <<Msg("need_two_links", 0)>>
            /\ pc' = "idle"
            /\ job' = NoJob]_vars

\* C14: the list of an accepted job holds exactly the media messages of the
\* chat whose ID is between the two link IDs, both included.
RangeInclusive ==
  (update.handler = "message" /\ update.outcome = "job") =>
    Items = {m \in chat[job.chat_id] : job.start_id <= m /\ m <= job.end_id}

\* the texts that reach the client lookup of the link branch
RangeRequests == {text \in Texts : Len(text) = 2 /\ startswith_link(text)}

\* C15: no step of the pipeline changes the store, the login states, the
\* client table or a client; a range request of a user without registered
\* client gets the not-logged-in notice and starts nothing; a running loop
\* uses the client registered for its requester.
PipelineUsesRegisteredClient ==
  [][/\ UNCHANGED <<sessions, USER_STATES, ACTIVE_CLIENTS, clients>>
     /\ \A u \in ADMINS : \A text \in RangeRequests :
          (u \notin DOMAIN ACTIVE_CLIENTS /\ handle_message(u, text))
            => /\ replies' = <<Msg("not_logged_in", 0)>>
               /\ pc' = "idle"
               /\ job' = NoJob
               /\ UNCHANGED <<PROGRESS_MESSAGES, platform, tasks>>
     /\ pc' \notin {"boot", "idle"} =>
          /\ job'.user \in DOMAIN ACTIVE_CLIENTS
          /\ job'.client = ACTIVE_CLIENTS[job'.user]]_vars

PipelineWitness ==
  /\ Handled("message", 2, "not_logged_in")
  /\ replies = <<Msg("not_logged_in", 0)>>
  /\ 2 \notin DOMAIN ACTIVE_CLIENTS
  /\ nextMsgId > 1

\* the clients a login of user u connected that neither signed in nor
\* were disconnected
Pending(u) ==
  {i \in DOMAIN clients :
     clients[i].owner = u /\ clients[i].connected /\ clients[i].cred = 0}

\* C16: no user has more than one pending login connection.
OnePendingClientPerUser == \A u \in Users : Cardinality(Pending(u)) <= 1

\* what the tables and the store hold for user v
Entries(v, us, ac, pm, ss) ==
  <<us[v],
    IF v \in DOMAIN ac THEN <<ac[v]>> ELSE <<>>,
    IF v \in DOMAIN pm THEN <<pm[v]>> ELSE <<>>,
    IF v \in DOMAIN ss THEN <<ss[v]>> ELSE <<>>>>

\* a step of a handler run for user u, or of the loop and the callbacks of
\* u's job
StepFor(u) ==
  \/ login(u)
  \/ logout(u)
  \/ \E text \in SessionTexts : handle_message(u, text)
  \/ (job.user = u /\ progress_callback)
  \/ (job.user = u /\ \E ok \in BOOLEAN : download_media(ok))

\* C17: a step taken for user u leaves the login state, the registered
\* client, the progress handle and the persisted record of every other user
\* as they were: a step that changes what is held for v is taken for no
\* other user.
OtherUsersUntouched ==
  [][\A v \in Users :
       Entries(v, USER_STATES', ACTIVE_CLIENTS', PROGRESS_MESSAGES', sessions')
         # Entries(v, USER_STATES, ACTIVE_CLIENTS, PROGRESS_MESSAGES, sessions)
       => \A u \in Users \ {v} : ~StepFor(u)]_vars

OtherUsersWitness ==
  /\ Handled("otp", 2, "ok")
  /\ 1 \in DOMAIN ACTIVE_CLIENTS
  /\ 1 \in DOMAIN sessions
  /\ 1 \in DOMAIN PROGRESS_MESSAGES
  /\ PROGRESS_MESSAGES[1] # None

\* position of the first occurrence of x in seq, Len(seq) + 1 without one
First(seq, x) ==
  IF \E k \in DOMAIN seq : seq[k] = x
  THEN CHOOSE k \in DOMAIN seq : seq[k] = x /\ \A j \in 1..(k - 1) : seq[j] # x
  ELSE Len(seq) + 1

\* C18: when the loop has ended, every item download_media was called for
\* got either the completion notice followed by the file, once each and no
\* failure notice, or one failure notice and neither of the others.
OneTerminalOutcome ==
  JobFinished =>
    \A i \in Attempted :
      LET saved == Count(replies, Msg("saved", i))
          document == Count(replies, Msg("document", i))
          failed == Count(replies, Msg("failed", i))
      IN \/ /\ saved = 1 /\ document = 1 /\ failed = 0
            /\ First(replies, Msg("saved", i)) < First(replies, Msg("document", i))
         \/ saved = 0 /\ document = 0 /\ failed = 1

\* C19: when a job that began with no callback task of an earlier job alive
\* has finished an item (it is about to download the next one, or the loop
\* has ended), no progress message sent since it began is left undeleted.
NoProgressLeftBehind ==
  (/\ job.stale = 0
   /\ \/ JobFinished
      \/ pc = "job" /\ job.cb = 0 /\ job.attempted # <<>>)
    => JobProgress = {}

\* C20: when the handler of an accepted job has ended, download_media was
\* called once for every item of the list, in the order of the loop.
EveryItemAttemptedOnce == JobFinished => job.attempted = reversed(job.messages)

====
